---- MODULE Spec2Model ----
(***************************************************************************)
(* Model of the rule aggregation pipeline of merge_rules.py (with the      *)
(* payload parsers of yaml_test.py and process_rules.py).                  *)
(*                                                                         *)
(* Text is modelled as a sequence of symbols.  A symbol is one character   *)
(* (" ", "-", "#", ",", "/", "a", ...) or one indivisible keyword          *)
(* ("payload:", "DOMAIN", "http://", ".yaml", ...).  A document is a       *)
(* sequence of lines (the result of str.splitlines()).                     *)
(***************************************************************************)
EXTENDS Integers, Sequences, FiniteSets, TLC

\* ------------------------------------------------------------------ bounds
\* Longest document, in lines, handed to the payload parsers in SpecParse.
MaxDocLen == 4
\* Longest descriptor text, in lines, read in SpecDoc.
MaxLits == 2
\* Longest fetched content, in lines, in SpecDoc.
MaxFetched == 2
\* Longest content, in lines, handed to process_asn_content in SpecAsn.
MaxAsnLen == 3
\* Largest rule set handed to categorize_rules in SpecClass.
MaxTokens == 2
\* Largest number of sources merged into one document in SpecBody.
MaxSources == 2
\* Size of the worker pool of one ThreadPoolExecutor.  The source sets 10
\* (merge_rules.py:23); the model scales it down so that a descriptor with
\* three URLs fills the pool.
MAX_WORKERS == 2
\* Retry budget of one URL (merge_rules.py:29).
MAX_RETRIES == 3

\* ------------------------------------------------------------- text helpers
\* Code points of a symbol, in the order Python compares strings.
Codes(c) ==
    CASE c = " " -> <<32>>
      [] c = "!" -> <<33>>
      [] c = "#" -> <<35>>
      [] c = "," -> <<44>>
      [] c = "-" -> <<45>>
      [] c = "/" -> <<47>>
      [] c = "a" -> <<97>>
      [] c = "b" -> <<98>>
      [] c = "DOMAIN" -> <<68, 79, 77, 65, 73, 78>>
      [] c = "DOMAIN-SUFFIX" -> <<68, 79, 77, 65, 73, 78, 45, 83, 85, 70, 70, 73, 88>>
      [] c = "DOMAIN-KEYWORD" -> <<68, 79, 77, 65, 73, 78, 45, 75, 69, 89, 87, 79, 82, 68>>
      [] c = "IP-CIDR" -> <<73, 80, 45, 67, 73, 68, 82>>
      [] c = "IP-CIDR6" -> <<73, 80, 45, 67, 73, 68, 82, 54>>
      [] c = "USER-AGENT" -> <<85, 83, 69, 82, 45, 65, 71, 69, 78, 84>>
      [] c = "IP-ASN" -> <<73, 80, 45, 65, 83, 78>>
      [] c = "PROCESS-NAME" -> <<80, 82, 79, 67, 69, 83, 83, 45, 78, 65, 77, 69>>
      [] c = "OTHER" -> <<79, 84, 72, 69, 82>>
      [] c = "no-resolve" -> <<110, 111, 45, 114, 101, 115, 111, 108, 118, 101>>
      [] c = "NO-RESOLVE" -> <<78, 79, 45, 82, 69, 83, 79, 76, 86, 69>>
      [] c = "payload:" -> <<112, 97, 121, 108, 111, 97, 100, 58>>
      [] c = "http://" -> <<104, 116, 116, 112, 58, 47, 47>>
      [] c = ".yaml" -> <<46, 121, 97, 109, 108>>
      [] c = "u1" -> <<117, 49>>
      [] c = "u2" -> <<117, 50>>
      [] c = "u3" -> <<117, 51>>
      [] c = "u4" -> <<117, 52>>
      [] c = "u5" -> <<117, 53>>
      [] c = "*" -> <<42>>
      [] c = "." -> <<46>>
      [] c = "1" -> <<49>>
      [] c = ":" -> <<58>>
      [] c = "x" -> <<120>>
      [] c = "user-agent" -> <<117, 115, 101, 114, 45, 97, 103, 101, 110, 116>>
      [] c = "User-Agent" -> <<85, 115, 101, 114, 45, 65, 103, 101, 110, 116>>
      [] c = "ip-asn" -> <<105, 112, 45, 97, 115, 110>>
      [] OTHER -> <<0>>

RECURSIVE Flatten(_)
Flatten(s) == IF s = <<>> THEN <<>> ELSE Codes(Head(s)) \o Flatten(Tail(s))

\* a < b for sequences of code points (Python's str.__lt__).
RECURSIVE CodesLess(_, _)
CodesLess(a, b) ==
    IF b = <<>> THEN FALSE
    ELSE IF a = <<>> THEN TRUE
    ELSE IF Head(a) # Head(b) THEN Head(a) < Head(b)
    ELSE CodesLess(Tail(a), Tail(b))

StrLess(s, t) == CodesLess(Flatten(s), Flatten(t))

\* sorted(S, reverse=True)
RECURSIVE sortedDescending(_)
sortedDescending(S) ==
    IF S = {} THEN <<>>
    ELSE LET m == CHOOSE x \in S : \A y \in S \ {x} : StrLess(y, x)
         IN  <<m>> \o sortedDescending(S \ {m})

\* sorted(S) for a set of strings.
RECURSIVE sorted(_)
sorted(S) ==
    IF S = {} THEN <<>>
    ELSE LET m == CHOOSE x \in S : \A y \in S \ {x} : StrLess(x, y)
         IN  <<m>> \o sorted(S \ {m})

IsSpace(c) == c = " "

RECURSIVE lstrip(_)
lstrip(s) == IF s # <<>> /\ IsSpace(Head(s)) THEN lstrip(Tail(s)) ELSE s

RECURSIVE rstrip(_)
rstrip(s) ==
    IF s # <<>> /\ IsSpace(s[Len(s)]) THEN rstrip(SubSeq(s, 1, Len(s) - 1)) ELSE s

\* str.strip()
strip(s) == rstrip(lstrip(s))

\* str.startswith(p), p a sequence of symbols
startswith(s, p) == Len(s) >= Len(p) /\ SubSeq(s, 1, Len(p)) = p

\* str.endswith(p)
endswith(s, p) == Len(s) >= Len(p) /\ SubSeq(s, Len(s) - Len(p) + 1, Len(s)) = p

\* The set of the elements of a sequence.
Range(q) == {q[i] : i \in 1..Len(q)}

\* The markers a plain list line must not start with (merge_rules.py:66, 153).
NoisePrefixes == {<<"#">>, <<"!">>, <<"/">>, <<";">>, <<"[">>, <<"payload:">>}

\* rule = rule[1:].strip() while rule.startswith('-')
RECURSIVE StripDashes(_)
StripDashes(rule) ==
    IF startswith(rule, <<"-">>) THEN StripDashes(strip(Tail(rule))) ELSE rule

\* ------------------------------------------------------------ Format Parser
\* Index of the first line whose trimmed text is 'payload:', 0 when none.
PayloadIndex(lines) ==
    IF \E i \in 1..Len(lines) : strip(lines[i]) = <<"payload:">>
    THEN CHOOSE i \in 1..Len(lines) :
            /\ strip(lines[i]) = <<"payload:">>
            /\ \A k \in 1..(i - 1) : strip(lines[k]) # <<"payload:">>
    ELSE 0

\* PayloadRegion without the break at the first line that starts with no dash.
RECURSIVE PayloadRegionNoBreak(_, _)
PayloadRegionNoBreak(lines, j) ==
    IF j > Len(lines) THEN {}
    ELSE LET stripped == strip(lines[j])
         IN  IF stripped = <<>> \/ startswith(stripped, <<"#">>)
                \/ ~startswith(stripped, <<"-">>)
             THEN PayloadRegionNoBreak(lines, j + 1)
             ELSE LET rule == strip(Tail(stripped))
                  IN  (IF rule # <<>> THEN {rule} ELSE {})
                        \cup PayloadRegionNoBreak(lines, j + 1)

\* The inner loop over lines[j..]: tokens of the payload region.
RECURSIVE PayloadRegion(_, _)
PayloadRegion(lines, j) ==
    IF j > Len(lines) THEN {}
    ELSE LET stripped == strip(lines[j])
         IN  IF stripped = <<>> \/ startswith(stripped, <<"#">>)
             THEN PayloadRegion(lines, j + 1)
             ELSE IF ~startswith(stripped, <<"-">>)
             THEN {}
             ELSE LET rule == strip(Tail(stripped))
                  IN  (IF rule # <<>> THEN {rule} ELSE {})
                        \cup PayloadRegion(lines, j + 1)

\* FallbackScan with every line that starts with no dash kept as a rule.
FallbackScanAll(lines, keepPlain) ==
    UNION { LET stripped == strip(lines[i])
            IN  IF stripped = <<>> \/ startswith(stripped, <<"#">>)
                   \/ stripped = <<"payload:">>
                THEN {}
                ELSE IF startswith(stripped, <<"-">>)
                THEN (IF strip(Tail(stripped)) # <<>>
                      THEN {strip(Tail(stripped))} ELSE {})
                ELSE IF keepPlain THEN {stripped}
                ELSE {}
          : i \in 1..Len(lines) }

\* The fallback scan of the whole document.  keepPlain: the variant of
\* merge_rules.py also keeps lines that start with no dash and no noise marker.
FallbackScan(lines, keepPlain) ==
    UNION { LET stripped == strip(lines[i])
            IN  IF stripped = <<>> \/ startswith(stripped, <<"#">>)
                   \/ stripped = <<"payload:">>
                THEN {}
                ELSE IF startswith(stripped, <<"-">>)
                THEN (IF strip(Tail(stripped)) # <<>>
                      THEN {strip(Tail(stripped))} ELSE {})
                ELSE IF keepPlain /\ \A p \in NoisePrefixes : ~startswith(stripped, p)
                THEN {stripped}
                ELSE {}
          : i \in 1..Len(lines) }

\* The rules collected before the final cleaning.
YamlCollect(lines, keepPlain) ==
    LET i == PayloadIndex(lines)
        rules == IF i = 0 THEN {} ELSE PayloadRegion(lines, i + 1)
    IN  IF i = 0 \/ rules = {}
        THEN rules \cup FallbackScan(lines, keepPlain)
        ELSE rules

\* merge_rules.py: process_yaml_content
process_yaml_content(lines) ==
    {StripDashes(rule) : rule \in YamlCollect(lines, TRUE)}

\* yaml_test.py: parse_yaml_content returns the sorted list of the cleaned
\* rules, one entry per collected rule.
parse_yaml_content(lines) ==
    LET rules == YamlCollect(lines, FALSE)
        RECURSIVE SortList(_)
        SortList(q) ==
            IF q = <<>> THEN <<>>
            ELSE LET k == CHOOSE i \in 1..Len(q) :
                            \A m \in 1..Len(q) : ~StrLess(q[m], q[i])
                 IN  <<q[k]>> \o SortList(SubSeq(q, 1, k - 1) \o SubSeq(q, k + 1, Len(q)))
        \* the collected rules in some order, each cleaned
        RECURSIVE Cleaned(_)
        Cleaned(S) ==
            IF S = {} THEN <<>>
            ELSE LET r == CHOOSE x \in S : TRUE
                 IN  <<StripDashes(r)>> \o Cleaned(S \ {r})
    IN  SortList(Cleaned(rules))

\* process_rules.py: parse_yaml_content
parse_yaml_content_pr(lines) ==
    {StripDashes(rule) : rule \in YamlCollect(lines, FALSE)}

\* process_rules.py: parse_list_content
parse_list_content(lines) ==
    {strip(lines[i]) : i \in {k \in 1..Len(lines) :
        strip(lines[k]) # <<>> /\ ~startswith(strip(lines[k]), <<"#">>)}}

\* The plain list branch of download_content.
PlainList(lines) ==
    {strip(lines[i]) : i \in {k \in 1..Len(lines) :
        /\ strip(lines[k]) # <<>>
        /\ \A p \in NoisePrefixes : ~startswith(strip(lines[k]), p)}}

\* 'payload:' in content
HasPayloadWord(lines) ==
    \E i \in 1..Len(lines) : \E k \in 1..Len(lines[i]) : lines[i][k] = "payload:"

\* url.lower().endswith(('.yaml', '.yml'))
IsYamlUrl(url) == url # <<>> /\ url[Len(url)] \in {".yaml", ".yml"}

\* process_rules.py: the rules process_source_files takes from one content.
RulesOfPr(url, lines) ==
    IF IsYamlUrl(url) THEN parse_yaml_content_pr(lines) ELSE parse_list_content(lines)

\* The success path of download_content: the rules of one fetched content.
ParseDownloaded(url, lines) ==
    IF IsYamlUrl(url) \/ HasPayloadWord(lines)
    THEN process_yaml_content(lines)
    ELSE PlainList(lines)

\* str.lower() of one symbol.
LowerSym(c) == IF c = "NO-RESOLVE" THEN "no-resolve" ELSE c

lower(s) == [i \in 1..Len(s) |-> LowerSym(s[i])]

\* Index of the first '//' of a line, 0 when there is none.
SlashSlashIndex(line) ==
    IF \E i \in 1..(Len(line) - 1) : line[i] = "/" /\ line[i + 1] = "/"
    THEN CHOOSE i \in 1..(Len(line) - 1) :
            /\ line[i] = "/" /\ line[i + 1] = "/"
            /\ \A k \in 1..(i - 1) : ~(line[k] = "/" /\ line[k + 1] = "/")
    ELSE 0

\* AsnLine without the test for a modifier that is already there.
AsnLineAlways(raw) ==
    LET line == strip(raw)
    IN  IF line = <<>> \/ startswith(line, <<"#">>) THEN {}
        ELSE LET k == SlashSlashIndex(line)
                 cut == IF k = 0 THEN line ELSE strip(SubSeq(line, 1, k - 1))
             IN  IF cut = <<>> THEN {}
                 ELSE {cut \o <<",", "no-resolve">>}

\* One line of process_asn_content: the set holding its rule, or empty.
AsnLine(raw) ==
    LET line == strip(raw)
    IN  IF line = <<>> \/ startswith(line, <<"#">>) THEN {}
        ELSE LET k == SlashSlashIndex(line)
                 cut == IF k = 0 THEN line ELSE strip(SubSeq(line, 1, k - 1))
             IN  IF cut = <<>> THEN {}
                 ELSE IF endswith(lower(cut), <<",", "no-resolve">>) THEN {cut}
                 ELSE {cut \o <<",", "no-resolve">>}

\* merge_rules.py: process_asn_content
process_asn_content(lines) == UNION {AsnLine(lines[i]) : i \in 1..Len(lines)}

\* -------------------------------------------------------------- Source Loader
IsUrlLine(line) == startswith(line, <<"http://">>) \/ startswith(line, <<"https://">>)

\* The trimmed lines of a descriptor that are neither empty nor '#' comments.
EntryLines(text) ==
    {strip(text[i]) : i \in {k \in 1..Len(text) :
        strip(text[k]) # <<>> /\ ~startswith(strip(text[k]), <<"#">>)}}

\* urls of process_source_file and process_asn_source_file
UrlsOf(text) == {l \in EntryLines(text) : IsUrlLine(l)}

\* direct_rules of process_source_file
DirectRules(text) == {l \in EntryLines(text) : ~IsUrlLine(l)}

\* ------------------------------------------------------------------- Writer
TypePrefixes == {"DOMAIN", "DOMAIN-SUFFIX", "DOMAIN-KEYWORD", "IP-CIDR", "IP-CIDR6",
                 "USER-AGENT", "IP-ASN", "PROCESS-NAME"}

\* The type counted for one rule (merge_rules.py:441-454).
RuleTypeOf(rule) ==
    IF \E p \in TypePrefixes : startswith(rule, <<p, ",">>) \/ startswith(rule, <<p, ":">>)
    THEN CHOOSE p \in TypePrefixes :
            startswith(rule, <<p, ",">>) \/ startswith(rule, <<p, ":">>)
    ELSE "OTHER"

\* The count lines: <<type, count>> for every counted type, sorted by type.
CountLines(all_rules) ==
    LET types == {RuleTypeOf(r) : r \in all_rules}
        order == sorted({<<t>> : t \in types})
    IN  [i \in 1..Len(order) |->
            <<order[i][1], Cardinality({r \in all_rules : RuleTypeOf(r) = order[i][1]})>>]

\* The number written on the TOTAL line (merge_rules.py:471).
TotalLine(all_rules) == Cardinality(all_rules)

\* re.sub(r',\s+', ',', s)
RECURSIVE CommaSpaces(_)
CommaSpaces(s) ==
    IF s = <<>> THEN <<>>
    ELSE IF Head(s) = "," THEN <<",">> \o CommaSpaces(lstrip(Tail(s)))
    ELSE <<Head(s)>> \o CommaSpaces(Tail(s))

\* One rule of the filter loop: the set holding its cleaned form, or empty.
FilterRule(rule) ==
    IF strip(rule) = <<"payload:">> THEN {}
    ELSE LET cleaned_rule == CommaSpaces(StripDashes(rule))
         IN  IF cleaned_rule = <<>> THEN {} ELSE {cleaned_rule}

\* filtered_rules of process_source_file
FilteredRules(all_rules) == UNION {FilterRule(r) : r \in all_rules}

\* The document process_source_file writes (the UPDATED line, read off the
\* clock, and the constant AUTHOR and REPO lines are left out).
RenderDoc(name, all_rules) ==
    [name |-> name, counts |-> CountLines(all_rules),
     total |-> TotalLine(all_rules), body |-> sorted(FilteredRules(all_rules))]

\* The document process_asn_source_file writes.
RenderAsnDoc(name, all_rules) ==
    [name |-> name, counts |-> << <<"IP-ASN", Cardinality(all_rules)>> >>,
     total |-> Cardinality(all_rules), body |-> sorted(all_rules)]

\* --------------------------------------------------------------- Classifier
\* categorize_rules works on the characters of a rule: a rule is here the
\* sequence of its code points.
Digits == 48..57
HexDigits == Digits \cup (65..70) \cup (97..102)
Letters == (65..90) \cup (97..122)
Alnums == Letters \cup Digits

\* Regular expressions: a character class, a sequence, a repetition.
Cls(S) == [t |-> "cls", set |-> S, parts |-> <<>>, lo |-> 1, hi |-> 1]
Cat(parts) == [t |-> "cat", set |-> {}, parts |-> parts, lo |-> 1, hi |-> 1]
Rep(n, lo, hi) == [t |-> "rep", set |-> {}, parts |-> <<n>>, lo |-> lo, hi |-> hi]
\* The upper bound of '+' and '*'.
Unbounded == -1

\* The positions at which a match of node n that starts at position i of s
\* may end (one past its last character).
RECURSIVE Ends(_, _, _), CatEnds(_, _, _), RepEnds(_, _, _, _, _, _)
Ends(n, s, i) ==
    IF n.t = "cls" THEN (IF i <= Len(s) /\ s[i] \in n.set THEN {i + 1} ELSE {})
    ELSE IF n.t = "cat" THEN CatEnds(n.parts, s, {i})
    ELSE RepEnds(n.parts[1], s, {i}, 0, n.lo, n.hi)
CatEnds(parts, s, I) ==
    IF parts = <<>> \/ I = {} THEN I
    ELSE CatEnds(Tail(parts), s, UNION {Ends(Head(parts), s, i) : i \in I})
RepEnds(n, s, I, k, lo, hi) ==
    (IF k >= lo THEN I ELSE {})
        \cup (IF I = {} \/ (hi # Unbounded /\ k >= hi) THEN {}
              ELSE RepEnds(n, s, UNION {Ends(n, s, i) : i \in I}, k + 1, lo, hi))

\* pattern.match(rule) for a pattern written ^(...)$
Matches(n, s) == (Len(s) + 1) \in Ends(n, s, 1)

\* ^(\d{1,3}\.\d{1,3}\.\d{1,3}\.\d{1,3}(/\d{1,2})?)$
ip_cidr_pattern ==
    Cat(<< Rep(Cls(Digits), 1, 3), Cls({46}), Rep(Cls(Digits), 1, 3), Cls({46}),
           Rep(Cls(Digits), 1, 3), Cls({46}), Rep(Cls(Digits), 1, 3),
           Rep(Cat(<< Cls({47}), Rep(Cls(Digits), 1, 2) >>), 0, 1) >>)

\* ^([0-9a-fA-F:]+(/\d{1,3})?)$
ipv6_cidr_pattern ==
    Cat(<< Rep(Cls(HexDigits \cup {58}), 1, Unbounded),
           Rep(Cat(<< Cls({47}), Rep(Cls(Digits), 1, 3) >>), 0, 1) >>)

\* ^([a-zA-Z0-9][-a-zA-Z0-9]*[a-zA-Z0-9]\.)+([a-zA-Z]{2,})$
domain_keyword_pattern ==
    Cat(<< Rep(Cat(<< Cls(Alnums), Rep(Cls(Alnums \cup {45}), 0, Unbounded),
                      Cls(Alnums), Cls({46}) >>), 1, Unbounded),
           Rep(Cls(Letters), 2, Unbounded) >>)

\* str.lower() on code points.
LowerCodes(s) == [i \in 1..Len(s) |-> IF s[i] \in 65..90 THEN s[i] + 32 ELSE s[i]]

\* The prefixes of a rule that carries its type (lines 330-334).
PreFormattedPrefixes ==
    {Flatten(<<p, sep>>) : p \in TypePrefixes, sep \in {",", ":"}}

IsPreFormatted(rule) == \E p \in PreFormattedPrefixes : startswith(rule, p)

\* HasColon without the test.
HasColonAlways(rule) == TRUE

\* ':' in rule
HasColon(rule) == \E i \in 1..Len(rule) : rule[i] = 58

\* rule[n:]
From(rule, n) == SubSeq(rule, n + 1, Len(rule))

\* The branch chain of lines 350-371 for one rule without type prefix: the
\* list of `categorized` it joins and the text appended.
Categorize(rule) ==
    IF Matches(ip_cidr_pattern, rule) THEN <<"IP-CIDR", rule>>
    ELSE IF Matches(ipv6_cidr_pattern, rule) /\ HasColon(rule) THEN <<"IP-CIDR6", rule>>
    ELSE IF startswith(rule, <<46>>) THEN <<"DOMAIN-SUFFIX", From(rule, 1)>>
    ELSE IF startswith(rule, <<42, 46>>) THEN <<"DOMAIN-SUFFIX", From(rule, 2)>>
    ELSE IF Matches(domain_keyword_pattern, rule) THEN <<"DOMAIN", rule>>
    ELSE IF startswith(LowerCodes(rule), Flatten(<<"user-agent", ",">>))
    THEN <<"USER-AGENT", From(rule, 11)>>
    ELSE IF startswith(LowerCodes(rule), Flatten(<<"ip-asn", ",">>))
    THEN <<"IP-ASN", From(rule, 7)>>
    ELSE <<"DOMAIN-KEYWORD", rule>>

\* categorize_rules: `categorized` maps each type that occurs to its list, here
\* the number of times each text is in the list (the order of a list follows
\* the iteration of the set); pre_formatted_rules holds the typed rules.
categorize_rules(rules) ==
    LET plain == {r \in rules : ~IsPreFormatted(r)}
        types == {Categorize(r)[1] : r \in plain}
    IN  [categorized |->
            [t \in types |->
                [v \in {Categorize(r)[2] : r \in {q \in plain : Categorize(q)[1] = t}} |->
                    Cardinality({r \in plain : Categorize(r) = <<t, v>>})]],
         pre_formatted_rules |-> {r \in rules : IsPreFormatted(r)}]


\* ------------------------------------------------------------ the file system
\* Names of the descriptors a run may find: sources/<name>.txt and
\* sources/ASN/<name>.txt.
TopNames == {"d1", "d2"}
AsnNames == {"a1"}
Descriptors == ({"top"} \X TopNames) \cup ({"asn"} \X AsnNames)

\* The text of each descriptor.
DescriptorText(d) ==
    CASE d = <<"top", "d1">> ->
            << <<"#", "a">>,
               <<"http://", "u1">>,
               <<"http://", "u2", ".yaml">>,
               <<"http://", "u3">>,
               <<"DOMAIN", ",", "a">>,
               <<"-", " ", "b">> >>
      [] d = <<"top", "d2">> ->
            << <<"http://", "u4">>, <<>> >>
      [] d = <<"asn", "a1">> ->
            << <<"http://", "u5">>, <<"IP-ASN", ",", "b">> >>
      [] OTHER -> <<>>

AllUrls == UNION {UrlsOf(DescriptorText(d)) : d \in Descriptors}

\* The content each URL serves when an attempt succeeds.
Content(url) ==
    CASE url = <<"http://", "u1">> ->
            << <<"a">>, <<"DOMAIN", ",", " ", "a">>, <<"!", "a">> >>
      [] url = <<"http://", "u2", ".yaml">> ->
            << <<"#", "a">>, <<"payload:">>, <<" ", " ", "-", " ", "b">>,
               <<" ", " ", "-", " ", "DOMAIN", ",", "b">> >>
      [] url = <<"http://", "u3">> ->
            << <<"b">>, <<>>, <<"/", "a">> >>
      [] url = <<"http://", "u4">> ->
            << <<"a">>, <<"b">> >>
      [] url = <<"http://", "u5">> ->
            << <<"#", "a">>, <<"IP-ASN", ",", "a", " ", "/", "/", " ", "b">> >>
      [] OTHER -> <<>>

\* What one attempt on a URL may end with: the content, a timeout, an HTTP
\* error of status 4xx or 5xx, or an error that is no RequestException.
Outcomes == {"ok", "timeout", "http4xx", "http5xx", "unexpected"}

\* The outcomes the remote end of each URL produces.
Behaviour(url) ==
    CASE url = <<"http://", "u1">> -> {"ok", "timeout"}
      [] url = <<"http://", "u2", ".yaml">> -> {"ok", "http4xx"}
      [] url = <<"http://", "u3">> -> {"ok", "http5xx", "unexpected"}
      [] url = <<"http://", "u4">> -> {"ok", "http5xx", "http4xx"}
      [] url = <<"http://", "u5">> -> {"ok", "timeout", "http4xx"}
      [] OTHER -> Outcomes

NoDoc == [name |-> "", counts |-> <<>>, total |-> 0, body |-> <<>>]
Absent == [st |-> "absent", doc |-> NoDoc]
Partial == [st |-> "partial", doc |-> NoDoc]
Complete(doc) == [st |-> "complete", doc |-> doc]

\* The document a previous run left at the output path of descriptor d.
OldDoc(d) ==
    [name |-> d[2], counts |-> << <<"OTHER", 1>> >>, total |-> 1,
     body |-> << <<"b">> >>]

VARIABLES
    srcDir,       \* SOURCE_DIR.is_dir()
    asnDir,       \* ASN_SOURCE_DIR.is_dir()
    sources,      \* the descriptors present: sources/*.txt and sources/ASN/*.txt
    out,          \* the output files: output/<name>.list, output/ASN/<name>.list
    pc,           \* position of main()
    phase,        \* "top" or "asn": which loop of main() is running
    todo,         \* descriptors the running loop has still to process
    cur,          \* the descriptor being processed, <<>> when none
    all_rules,    \* all_rules of the descriptor being processed
    fstate,       \* per URL: "idle", "queued", "running", "done", "merged"
    attempt,      \* per URL: attempt of its download call
    result,       \* per URL: the set its download call returned
    how,          \* per URL: how its attempt loop ended
    gets,         \* per URL: HTTP GETs issued by its download call
    sleeps,       \* per URL: retry delays taken by its download call
    seen,         \* per URL: the failures its attempts ended with
    processed,    \* descriptors handed to process_(asn_)source_file
    unlinkFailed, \* some unlink() of the cleaning loops raised
    nonempty,     \* descriptors whose processing collected a rule
    writeFailed,  \* descriptors whose open() or write() of the output raised
    fnStage,      \* SpecParse, SpecDoc: stage of the function under check
    fnUrl,        \* SpecParse, SpecDoc: the URL fetched
    fnDoc,        \* SpecParse, SpecDoc: the content fetched
    fnText,       \* SpecParse, SpecDoc: the descriptor text
    fnYaml,       \* SpecParse, SpecDoc: process_yaml_content(fnDoc)
    fnTest,       \* SpecParse, SpecDoc: yaml_test.parse_yaml_content(fnDoc)
    fnRules,      \* SpecParse, SpecDoc: all_rules collected
    fnOut,        \* SpecParse, SpecDoc: the document written
    fnAgain,      \* SpecAsn: process_asn_content of the joined first result
    categorized,  \* SpecClass: categorized of categorize_rules
    pre_formatted_rules, \* SpecClass: pre_formatted_rules of categorize_rules
    fnParts,      \* SpecBody: the sources merged, each a URL and its content
    fnAsnOut,     \* SpecBody: the document process_asn_source_file writes
    fnPrOut       \* SpecBody: the lines process_source_files writes

runVars == <<srcDir, asnDir, sources, out, pc, phase, todo, cur, all_rules,
             fstate, attempt, result, how, gets, sleeps, seen, processed,
             unlinkFailed, nonempty, writeFailed>>
fnVarsButStage == <<fnUrl, fnDoc, fnText, fnYaml, fnTest, fnRules, fnOut>>
fnVars == <<fnStage, fnUrl, fnDoc, fnText, fnYaml, fnTest, fnRules, fnOut>>
pureVars == <<fnAgain, categorized, pre_formatted_rules, fnParts, fnAsnOut, fnPrOut>>
vars == <<runVars, fnVars, pureVars>>

\* The URLs and the literal rules of the descriptor being processed.
urls == IF cur = <<>> THEN {} ELSE UrlsOf(DescriptorText(cur))
direct_rules ==
    IF cur = <<>> \/ cur[1] = "asn" THEN {} ELSE DirectRules(DescriptorText(cur))

\* Fetches in flight: download calls that have started and not returned.
InFlight == {u \in AllUrls : fstate[u] = "running"}

FnIdle ==
    /\ fnStage = "off"
    /\ fnUrl = <<>>
    /\ fnDoc = <<>>
    /\ fnText = <<>>
    /\ fnYaml = {}
    /\ fnTest = <<>>
    /\ fnRules = {}
    /\ fnOut = Absent

PureIdle ==
    /\ fnAgain = {}
    /\ categorized = <<>>
    /\ pre_formatted_rules = {}
    /\ fnParts = <<>>
    /\ fnAsnOut = Absent
    /\ fnPrOut = <<>>

LocalsInit ==
    /\ cur = <<>>
    /\ all_rules = {}
    /\ fstate = [u \in AllUrls |-> "idle"]
    /\ attempt = [u \in AllUrls |-> 0]
    /\ result = [u \in AllUrls |-> {}]
    /\ how = [u \in AllUrls |-> "none"]
    /\ gets = [u \in AllUrls |-> 0]
    /\ sleeps = [u \in AllUrls |-> 0]
    /\ seen = [u \in AllUrls |-> {}]

\* The state main() starts in: any set of descriptors, any set of documents
\* left by a previous run.
Init ==
    /\ srcDir \in BOOLEAN
    /\ asnDir \in BOOLEAN
    /\ sources \in SUBSET Descriptors
    /\ ~srcDir => asnDir = FALSE /\ sources = {}
    /\ ~asnDir => \A d \in sources : d[1] = "top"
    /\ out \in {[d \in Descriptors |-> IF d \in S THEN Complete(OldDoc(d)) ELSE Absent]
                    : S \in SUBSET Descriptors}
    /\ pc = "start"
    /\ phase = "top"
    /\ todo = {}
    /\ processed = {}
    /\ unlinkFailed = FALSE
    /\ nonempty = {}
    /\ writeFailed = {}
    /\ LocalsInit
    /\ FnIdle
    /\ PureIdle


\* --------------------------------------------------------------------- main
\* main(): the check of the root source directory (lines 513-516).
MainCheckDir ==
    /\ pc = "start"
    /\ pc' = IF srcDir THEN "glob" ELSE "exit_nodir"
    /\ UNCHANGED <<srcDir, asnDir, sources, out, phase, todo, cur, all_rules,
                   fstate, attempt, result, how, gets, sleeps, seen, processed,
                   unlinkFailed, nonempty, writeFailed,
                   fnVars, pureVars>>

\* main(): source_files = SOURCE_DIR.glob("*.txt"), return when empty
\* (lines 518-522).
MainGlob ==
    /\ pc = "glob"
    /\ LET source_files == {d \in sources : d[1] = "top"}
       IN  IF source_files = {}
           THEN pc' = "exit_nosrc" /\ todo' = todo
           ELSE pc' = "clean" /\ todo' = source_files
    /\ UNCHANGED <<srcDir, asnDir, sources, out, phase, cur, all_rules,
                   fstate, attempt, result, how, gets, sleeps, seen, processed,
                   unlinkFailed, nonempty, writeFailed,
                   fnVars, pureVars>>

\* CleanDir with the cleaning loop left out.
CleanDirSkipped(kind) ==
    /\ out' = out
    /\ unlinkFailed' = unlinkFailed

\* The cleaning loop over <dir>.glob("*.list"): every file is unlinked, except
\* those whose unlink() raises (lines 529-534, 548-553).
CleanDir(kind) ==
    \E failed \in SUBSET {d \in Descriptors : d[1] = kind /\ out[d].st # "absent"} :
        /\ out' = [d \in Descriptors |->
                      IF d[1] = kind /\ d \notin failed THEN Absent ELSE out[d]]
        /\ unlinkFailed' = (unlinkFailed \/ failed # {})

\* main(): mkdir and the cleaning of output/ (lines 524-534).
MainClean ==
    /\ pc = "clean"
    /\ CleanDir("top")
    /\ pc' = "next"
    /\ UNCHANGED <<srcDir, asnDir, sources, phase, todo, cur, all_rules,
                   fstate, attempt, result, how, gets, sleeps, seen, processed,
                   nonempty, writeFailed,
                   fnVars, pureVars>>

\* main(): one turn of `for source_file in source_files` or of
\* `for asn_file in asn_source_files`: the call of process_(asn_)source_file.
MainNext ==
    /\ pc = "next"
    /\ \E d \in todo :
        /\ cur' = d
        /\ todo' = todo \ {d}
        /\ processed' = processed \cup {d}
    /\ pc' = "read"
    /\ UNCHANGED <<srcDir, asnDir, sources, out, phase, all_rules,
                   fstate, attempt, result, how, gets, sleeps, seen,
                   unlinkFailed, nonempty, writeFailed,
                   fnVars, pureVars>>

\* main(): the end of one of the two loops.
MainLoopEnd ==
    /\ pc = "next"
    /\ todo = {}
    /\ pc' = IF phase = "top" THEN "asn_check" ELSE "done"
    /\ UNCHANGED <<srcDir, asnDir, sources, out, phase, todo, cur, all_rules,
                   fstate, attempt, result, how, gets, sleeps, seen, processed,
                   unlinkFailed, nonempty, writeFailed,
                   fnVars, pureVars>>

\* main(): the ASN folder: mkdir, cleaning of output/ASN/, glob (lines 540-563).
MainAsn ==
    /\ pc = "asn_check"
    /\ IF asnDir
       THEN /\ CleanDir("asn")
            /\ todo' = {d \in sources : d[1] = "asn"}
            /\ phase' = "asn"
            /\ pc' = "next"
       ELSE /\ pc' = "done"
            /\ UNCHANGED <<out, unlinkFailed, todo, phase>>
    /\ UNCHANGED <<srcDir, asnDir, sources, cur, all_rules,
                   fstate, attempt, result, how, gets, sleeps, seen, processed,
                   nonempty, writeFailed,
                   fnVars, pureVars>>

\* ------------------------------------- process_source_file, process_asn_source_file
\* Reading the descriptor (lines 383-413, 252-276): nothing to do returns,
\* otherwise every URL is submitted to a new ThreadPoolExecutor.
ProcRead ==
    /\ pc = "read"
    /\ IF urls = {} /\ direct_rules = {}
       THEN /\ pc' = "return"
            /\ UNCHANGED <<all_rules, fstate>>
       ELSE /\ all_rules' = direct_rules
            /\ fstate' = [u \in AllUrls |-> IF u \in urls THEN "queued" ELSE fstate[u]]
            /\ pc' = "fetch"
    /\ UNCHANGED <<srcDir, asnDir, sources, out, phase, todo, cur,
                   attempt, result, how, gets, sleeps, seen, processed,
                   unlinkFailed, nonempty, writeFailed,
                   fnVars, pureVars>>

\* ProcReadFail with the error leaving main().
ProcReadFailAborts ==
    /\ pc = "read"
    /\ pc' = "done"
    /\ UNCHANGED <<srcDir, asnDir, sources, out, phase, todo, cur, all_rules,
                   fstate, attempt, result, how, gets, sleeps, seen, processed,
                   unlinkFailed, nonempty, writeFailed,
                   fnVars, pureVars>>

\* open(source_file) raises: the descriptor is skipped (lines 401-406, 264-269).
ProcReadFail ==
    /\ pc = "read"
    /\ pc' = "return"
    /\ UNCHANGED <<srcDir, asnDir, sources, out, phase, todo, cur, all_rules,
                   fstate, attempt, result, how, gets, sleeps, seen, processed,
                   unlinkFailed, nonempty, writeFailed,
                   fnVars, pureVars>>

\* StartFetch with a pool that runs one download at a time.
StartFetchSerial(u) ==
    /\ pc = "fetch"
    /\ fstate[u] = "queued"
    /\ InFlight = {}
    /\ fstate' = [fstate EXCEPT ![u] = "running"]
    /\ UNCHANGED <<srcDir, asnDir, sources, out, pc, phase, todo, cur, all_rules,
                   attempt, result, how, gets, sleeps, seen, processed,
                   unlinkFailed, nonempty, writeFailed,
                   fnVars, pureVars>>

\* StartFetch with a thread per submitted download.
StartFetchUnbounded(u) ==
    /\ pc = "fetch"
    /\ fstate[u] = "queued"
    /\ fstate' = [fstate EXCEPT ![u] = "running"]
    /\ UNCHANGED <<srcDir, asnDir, sources, out, pc, phase, todo, cur, all_rules,
                   attempt, result, how, gets, sleeps, seen, processed,
                   unlinkFailed, nonempty, writeFailed,
                   fnVars, pureVars>>

\* A pool thread takes a submitted download: at most max_workers threads exist
\* (lines 417-419, 279-280).
StartFetch(u) ==
    /\ pc = "fetch"
    /\ fstate[u] = "queued"
    /\ Cardinality(InFlight) < MAX_WORKERS
    /\ fstate' = [fstate EXCEPT ![u] = "running"]
    /\ UNCHANGED <<srcDir, asnDir, sources, out, pc, phase, todo, cur, all_rules,
                   attempt, result, how, gets, sleeps, seen, processed,
                   unlinkFailed, nonempty, writeFailed,
                   fnVars, pureVars>>

\* Retriable with the timeout handler leaving the loop.
RetriableNoTimeout(o) == o \in {"http5xx"}

\* Retriable with every RequestException leaving the loop.
RetriableOnlyTimeout(o) == o \in {"timeout"}

\* Retriable without the test of the status code.
RetriableAnyStatus(o) == o \in {"timeout", "http5xx", "http4xx"}

\* except Timeout, and except RequestException without a 4xx response: the
\* failures after which the loop goes on (lines 72-78, 85-89).
Retriable(o) == o \in {"timeout", "http5xx"}

\* The failures that count as an attempt (lines 73, 80).
CountsAttempt(o) == o \in {"timeout", "http5xx", "http4xx"}

\* The rules of a fetched content: download_content (lines 53-67) or
\* download_asn_content (line 217).
RulesOf(kind, url, lines) ==
    IF kind = "asn" THEN process_asn_content(lines) ELSE ParseDownloaded(url, lines)

\* One turn of the attempt loop of download_content / download_asn_content
\* (lines 41-95, 206-243): the GET, and what its outcome o leads to.
Attempt(u, o) ==
    /\ pc = "fetch"
    /\ fstate[u] = "running"
    /\ attempt[u] < MAX_RETRIES
    /\ gets' = [gets EXCEPT ![u] = @ + 1]
    /\ LET a == IF CountsAttempt(o) THEN attempt[u] + 1 ELSE attempt[u]
           again == Retriable(o) /\ a < MAX_RETRIES
       IN  /\ attempt' = [attempt EXCEPT ![u] = a]
           /\ seen' = [seen EXCEPT ![u] = IF o = "ok" THEN @ ELSE @ \cup {o}]
           /\ sleeps' = [sleeps EXCEPT ![u] = IF again THEN @ + 1 ELSE @]
           /\ result' = [result EXCEPT ![u] =
                            IF o = "ok" THEN RulesOf(cur[1], u, Content(u)) ELSE {}]
           /\ how' = [how EXCEPT ![u] =
                            IF o = "ok" THEN "ok"
                            ELSE IF o = "unexpected" THEN "unexpected"
                            ELSE IF o = "http4xx" THEN "client"
                            ELSE IF again THEN "none" ELSE "exhausted"]
           /\ fstate' = [fstate EXCEPT ![u] = IF again THEN "running" ELSE "done"]
    /\ UNCHANGED <<srcDir, asnDir, sources, out, pc, phase, todo, cur, all_rules,
                   processed, unlinkFailed, nonempty, writeFailed,
                   fnVars, pureVars>>

\* MergeRules as an assignment instead of an update.
MergeRulesAssign(rules, rules_from_url) == rules_from_url

\* all_rules.update(rules_from_url)
MergeRules(rules, rules_from_url) == rules \cup rules_from_url

\* One turn of `for future in as_completed(...)` (lines 422-430, 282-288).
Merge(u) ==
    /\ pc = "fetch"
    /\ fstate[u] = "done"
    /\ all_rules' = MergeRules(all_rules, result[u])
    /\ fstate' = [fstate EXCEPT ![u] = "merged"]
    /\ UNCHANGED <<srcDir, asnDir, sources, out, pc, phase, todo, cur,
                   attempt, result, how, gets, sleeps, seen, processed,
                   unlinkFailed, nonempty, writeFailed,
                   fnVars, pureVars>>

\* The executor is left; no rule collected returns (lines 432-437, 290-294).
ProcCollected ==
    /\ pc = "fetch"
    /\ \A u \in urls : fstate[u] = "merged"
    /\ pc' = IF all_rules = {} THEN "return" ELSE "write"
    /\ nonempty' = IF all_rules = {} THEN nonempty ELSE nonempty \cup {cur}
    /\ UNCHANGED <<srcDir, asnDir, sources, out, phase, todo, cur, all_rules,
                   fstate, attempt, result, how, gets, sleeps, seen, processed,
                   unlinkFailed, writeFailed,
                   fnVars, pureVars>>

\* The document written for the descriptor being processed.
CurDoc ==
    IF cur[1] = "asn" THEN RenderAsnDoc(cur[2], all_rules)
    ELSE RenderDoc(cur[2], all_rules)

\* open(output_file, 'w') truncates the file (lines 458, 298).
WriteOpen ==
    /\ pc = "write"
    /\ out' = [out EXCEPT ![cur] = Partial]
    /\ pc' = "writing"
    /\ UNCHANGED <<srcDir, asnDir, sources, phase, todo, cur, all_rules,
                   fstate, attempt, result, how, gets, sleeps, seen, processed,
                   unlinkFailed, nonempty, writeFailed,
                   fnVars, pureVars>>

\* open(output_file, 'w') raises: logged (lines 504-507, 313-316).
WriteOpenFail ==
    /\ pc = "write"
    /\ pc' = "return"
    /\ writeFailed' = writeFailed \cup {cur}
    /\ UNCHANGED <<srcDir, asnDir, sources, out, phase, todo, cur, all_rules,
                   fstate, attempt, result, how, gets, sleeps, seen, processed,
                   unlinkFailed, nonempty,
                   fnVars, pureVars>>

\* The header and the body are written and the file is closed
\* (lines 459-503, 299-312).
WriteClose ==
    /\ pc = "writing"
    /\ out' = [out EXCEPT ![cur] = Complete(CurDoc)]
    /\ pc' = "wrote"
    /\ UNCHANGED <<srcDir, asnDir, sources, phase, todo, cur, all_rules,
                   fstate, attempt, result, how, gets, sleeps, seen, processed,
                   unlinkFailed, nonempty, writeFailed,
                   fnVars, pureVars>>

\* A write raises before the file is complete: logged (lines 504-507, 313-316).
WriteFail ==
    /\ pc = "writing"
    /\ pc' = "return"
    /\ writeFailed' = writeFailed \cup {cur}
    /\ UNCHANGED <<srcDir, asnDir, sources, out, phase, todo, cur, all_rules,
                   fstate, attempt, result, how, gets, sleeps, seen, processed,
                   unlinkFailed, nonempty,
                   fnVars, pureVars>>

\* process_(asn_)source_file returns: its locals are gone.
ProcReturn ==
    /\ pc \in {"return", "wrote"}
    /\ pc' = "next"
    /\ cur' = <<>>
    /\ all_rules' = {}
    /\ fstate' = [u \in AllUrls |-> "idle"]
    /\ attempt' = [u \in AllUrls |-> 0]
    /\ result' = [u \in AllUrls |-> {}]
    /\ how' = [u \in AllUrls |-> "none"]
    /\ gets' = [u \in AllUrls |-> 0]
    /\ sleeps' = [u \in AllUrls |-> 0]
    /\ seen' = [u \in AllUrls |-> {}]
    /\ UNCHANGED <<srcDir, asnDir, sources, out, phase, todo, processed,
                   unlinkFailed, nonempty, writeFailed,
                   fnVars, pureVars>>

Next ==
    \/ MainCheckDir
    \/ MainGlob
    \/ MainClean
    \/ MainNext
    \/ MainLoopEnd
    \/ MainAsn
    \/ ProcRead
    \/ ProcReadFail
    \/ \E u \in AllUrls : StartFetch(u)
    \/ \E u \in AllUrls : \E o \in Behaviour(u) : Attempt(u, o)
    \/ \E u \in AllUrls : Merge(u)
    \/ ProcCollected
    \/ WriteOpen
    \/ WriteOpenFail
    \/ WriteClose
    \/ WriteFail
    \/ ProcReturn

Spec == Init /\ [][Next]_vars


\* ------------------------------------------------ the parsers on bounded inputs
\* Sequences over S of length at most n.
SeqsUpTo(S, n) == UNION {[1..k -> S] : k \in 0..n}

\* The lines the documents of SpecParse are made of.
ParseLines ==
    { <<"payload:">>,
      <<" ", " ", "-", " ", "a">>,
      <<"-", "-", "b">>,
      <<"-">>,
      <<"-", " ", "-">>,
      <<"a">>,
      <<"#", "a">>,
      <<>>,
      <<"/", "a">>,
      <<"-", "payload:">> }

RunIdle ==
    /\ srcDir = FALSE
    /\ asnDir = FALSE
    /\ sources = {}
    /\ out = [d \in Descriptors |-> Absent]
    /\ pc = "off"
    /\ phase = "top"
    /\ todo = {}
    /\ processed = {}
    /\ unlinkFailed = FALSE
    /\ nonempty = {}
    /\ writeFailed = {}
    /\ LocalsInit

InitParse ==
    /\ RunIdle
    /\ PureIdle
    /\ fnStage = "in"
    /\ fnDoc \in SeqsUpTo(ParseLines, MaxDocLen)
    /\ fnUrl = <<>>
    /\ fnText = <<>>
    /\ fnYaml = {}
    /\ fnTest = <<>>
    /\ fnRules = {}
    /\ fnOut = Absent

\* process_yaml_content(content) of merge_rules.py is applied.
ApplyYaml ==
    /\ fnStage = "in"
    /\ fnYaml' = process_yaml_content(fnDoc)
    /\ fnStage' = "yaml"
    /\ UNCHANGED <<runVars, pureVars, fnUrl, fnDoc, fnText, fnTest, fnRules, fnOut>>

\* parse_yaml_content(content) of yaml_test.py is applied.
ApplyTest ==
    /\ fnStage = "yaml"
    /\ fnTest' = parse_yaml_content(fnDoc)
    /\ fnStage' = "parsed"
    /\ UNCHANGED <<runVars, pureVars, fnUrl, fnDoc, fnText, fnYaml, fnRules, fnOut>>

NextParse == ApplyYaml \/ ApplyTest

SpecParse == InitParse /\ [][NextParse]_vars

\* ----------------------------------- process_source_file on bounded inputs
\* The lines the descriptors of SpecDoc are made of.
TextLines ==
    { <<"http://", "u1">>,
      <<"DOMAIN", ",", "a">>,
      <<"DOMAIN", ",", " ", "a">>,
      <<"-", "payload:">>,
      <<"payload:">>,
      <<"-", " ", "a">>,
      <<"-">>,
      <<"#", "a">> }

\* The lines the fetched contents of SpecDoc are made of.
FetchedLines ==
    { <<"payload:">>,
      <<"-", " ", "a">>,
      <<"-", " ", "-">>,
      <<"b">>,
      <<"-", "payload:">>,
      <<"DOMAIN", ",", " ", " ", "a">>,
      <<"DOMAIN", " ", ",", "a">> }

FetchUrls == { <<"http://", "u1">>, <<"http://", "u2", ".yaml">> }

InitDoc ==
    /\ RunIdle
    /\ PureIdle
    /\ fnStage = "in"
    /\ fnText \in SeqsUpTo(TextLines, MaxLits)
    /\ fnDoc \in SeqsUpTo(FetchedLines, MaxFetched)
    /\ fnUrl \in FetchUrls
    /\ fnYaml = {}
    /\ fnTest = <<>>
    /\ fnRules = {}
    /\ fnOut = Absent

\* The descriptor is read: all_rules = direct_rules.copy() (lines 383-413).
DocRead ==
    /\ fnStage = "in"
    /\ fnRules' = DirectRules(fnText)
    /\ fnStage' = IF UrlsOf(fnText) = {} /\ DirectRules(fnText) = {}
                  THEN "skipped" ELSE "read"
    /\ UNCHANGED <<runVars, pureVars, fnUrl, fnDoc, fnText, fnYaml, fnTest, fnOut>>

\* The URL of the descriptor, when it has one, is fetched and its rules are
\* merged (lines 415-430); no rule collected returns (lines 435-437).
DocFetch ==
    /\ fnStage = "read"
    /\ fnRules' = IF UrlsOf(fnText) = {} THEN fnRules
                  ELSE MergeRules(fnRules, ParseDownloaded(fnUrl, fnDoc))
    /\ fnStage' = IF fnRules' = {} THEN "skipped" ELSE "collected"
    /\ UNCHANGED <<runVars, pureVars, fnUrl, fnDoc, fnText, fnYaml, fnTest, fnOut>>

\* The document is written (lines 439-503).
DocWrite ==
    /\ fnStage = "collected"
    /\ fnOut' = Complete(RenderDoc("d1", fnRules))
    /\ fnStage' = "written"
    /\ UNCHANGED <<runVars, pureVars, fnUrl, fnDoc, fnText, fnYaml, fnTest, fnRules>>

NextDoc == DocRead \/ DocFetch \/ DocWrite

SpecDoc == InitDoc /\ [][NextDoc]_vars


\* ------------------------------------- process_asn_content on bounded inputs
\* The lines the contents of SpecAsn are made of.
AsnLines ==
    { <<"IP-ASN", ",", "a">>,
      <<"IP-ASN", ",", "a", ",", "no-resolve">>,
      <<"IP-ASN", ",", "b", ",", "NO-RESOLVE">>,
      <<" ", "IP-ASN", ",", "b", " ", "/", "/", " ", "a">>,
      <<"IP-ASN", ",", "b", ",", "no-resolve", "/", "/", "a">>,
      <<"/", "/", "a">>,
      <<"#", "a">>,
      <<>>,
      <<"a", "/", "b", " ">>,
      <<"IP-ASN", ",", "a", ",", " ", "no-resolve">>,
      <<"a", ",", "no-resolve", ",", "no-resolve">> }

InitAsn ==
    /\ RunIdle
    /\ PureIdle
    /\ fnStage = "in"
    /\ fnDoc \in SeqsUpTo(AsnLines, MaxAsnLen)
    /\ fnUrl = <<>>
    /\ fnText = <<>>
    /\ fnYaml = {}
    /\ fnTest = <<>>
    /\ fnRules = {}
    /\ fnOut = Absent

\* process_asn_content(content) is applied.
ApplyAsn ==
    /\ fnStage = "in"
    /\ fnRules' = process_asn_content(fnDoc)
    /\ fnStage' = "asn"
    /\ UNCHANGED <<runVars, pureVars, fnUrl, fnDoc, fnText, fnYaml, fnTest, fnOut>>

\* process_asn_content is applied to the text that joins the rules of the
\* first result with newlines: its lines are these rules, in some order.
ApplyAsnAgain ==
    /\ fnStage = "asn"
    /\ fnAgain' = process_asn_content(sorted(fnRules))
    /\ fnStage' = "again"
    /\ UNCHANGED <<runVars, categorized, pre_formatted_rules, fnParts, fnAsnOut, fnPrOut, fnUrl, fnDoc, fnText, fnYaml, fnTest, fnRules, fnOut>>

NextAsn == ApplyAsn \/ ApplyAsnAgain

SpecAsn == InitAsn /\ [][NextAsn]_vars


\* --------------------------------------- categorize_rules on bounded inputs
\* The rules the sets of SpecClass are made of.
ClassTokens ==
    { <<"1", ".", "1", ".", "1", ".", "1">>,
      <<"1", ".", "1", ".", "1", ".", "1", "/", "1", "1">>,
      <<"1", "1", "1", "1", ".", "1", ".", "1", ".", "1">>,
      <<"1", ".", "1", ".", "1", ".", "1", "/", "1", "1", "1">>,
      <<"a", ":", ":", "1">>,
      <<"a", ":", "1", "/", "1", "1", "1">>,
      <<"a", "b", "/", "1">>,
      <<"x", ":", "1">>,
      <<".", "a", "b", ".", "x", "x">>,
      <<"*", ".", "a", "b", ".", "x", "x">>,
      <<"*", "a">>,
      <<"a", "b", ".", "x", "x">>,
      <<"a", ".", "x", "x">>,
      <<"a", "-", "b", ".", "x", "x">>,
      <<"a", "b", ".", "x", "1">>,
      <<"x">>,
      <<"user-agent", ",", "x">>,
      <<"User-Agent", ",", "x">>,
      <<"ip-asn", ",", "1">>,
      <<"user-agent", ".", "x", "x">>,
      <<"DOMAIN", ",", "a">>,
      <<"USER-AGENT", ":", "x">>,
      <<"DOMAIN", "x">> }

InitClass ==
    /\ RunIdle
    /\ PureIdle
    /\ fnStage = "in"
    /\ fnRules \in {S \in SUBSET ClassTokens : Cardinality(S) <= MaxTokens}
    /\ fnDoc = <<>>
    /\ fnUrl = <<>>
    /\ fnText = <<>>
    /\ fnYaml = {}
    /\ fnTest = <<>>
    /\ fnOut = Absent

\* categorize_rules(rules) is applied.
ApplyCategorize ==
    /\ fnStage = "in"
    /\ LET r == categorize_rules({Flatten(rule) : rule \in fnRules})
       IN  /\ categorized' = r.categorized
           /\ pre_formatted_rules' = r.pre_formatted_rules
    /\ fnStage' = "classified"
    /\ UNCHANGED <<runVars, fnAgain, fnParts, fnAsnOut, fnPrOut, fnUrl, fnDoc, fnText, fnYaml,
                   fnTest, fnRules, fnOut>>

NextClass == ApplyCategorize

SpecClass == InitClass /\ [][NextClass]_vars


\* ----------------------------- the three writers on bounded sets of sources
\* The sources of SpecBody: a URL and the content it serves.
SourceContents ==
    { << <<"http://", "u1">>, << <<"b">>, <<"a">> >> >>,
      << <<"http://", "u1">>, << <<"a">>, <<"DOMAIN", ",", " ", "a">> >> >>,
      << <<"http://", "u2", ".yaml">>,
         << <<"payload:">>, <<"-", " ", "a">>, <<"-", " ", "DOMAIN", ",", "a">> >> >>,
      << <<"http://", "u1">>, << <<"DOMAIN", ",", "a">>, <<"-", " ", "a">> >> >>,
      << <<"http://", "u2", ".yaml">>, << <<"-", " ", "b">>, <<"-", " ", "-">> >> >>,
      << <<"http://", "u1">>,
         << <<"IP-ASN", ",", "b", " ", "/", "/", "a">>,
            <<"IP-ASN", ",", "b", ",", "no-resolve">>, <<"IP-ASN", ",", "a">> >> >>,
      << <<"http://", "u1">>, <<>> >>,
      << <<"http://", "u1">>, << <<"b">>, <<" ", "b", " ">> >> >> }

\* The literal lines of the descriptor of SpecBody.
BodyTexts == { <<>>, << <<"b">>, <<"-", " ", "a">> >> }

InitBody ==
    /\ RunIdle
    /\ fnStage = "in"
    /\ fnParts \in SeqsUpTo(SourceContents, MaxSources)
    /\ fnText \in BodyTexts
    /\ fnAgain = {}
    /\ categorized = <<>>
    /\ pre_formatted_rules = {}
    /\ fnAsnOut = Absent
    /\ fnPrOut = <<>>
    /\ fnDoc = <<>>
    /\ fnUrl = <<>>
    /\ fnYaml = {}
    /\ fnTest = <<>>
    /\ fnRules = {}
    /\ fnOut = Absent

\* The rules one of the three functions takes from one content.
SourceRules(kind, url, lines) ==
    IF kind = "pr" THEN RulesOfPr(url, lines) ELSE RulesOf(kind, url, lines)

\* all_rules after every source has been merged into rules.
RECURSIVE Collected(_, _, _)
Collected(parts, rules, kind) ==
    IF parts = <<>> THEN rules
    ELSE Collected(Tail(parts),
                   MergeRules(rules, SourceRules(kind, Head(parts)[1], Head(parts)[2])),
                   kind)

\* process_source_file of merge_rules.py on the sources (lines 375-507).
BodyTop ==
    /\ fnStage = "in"
    /\ LET rules == Collected(fnParts, DirectRules(fnText), "top")
       IN  /\ fnRules' = rules
           /\ fnOut' = IF rules = {} THEN Absent ELSE Complete(RenderDoc("d1", rules))
    /\ fnStage' = "top"
    /\ UNCHANGED <<runVars, fnAgain, categorized, pre_formatted_rules, fnParts, fnAsnOut,
                   fnPrOut, fnUrl, fnDoc, fnText, fnYaml, fnTest>>

\* process_asn_source_file on the sources (lines 245-316).
BodyAsn ==
    /\ fnStage = "top"
    /\ LET rules == Collected(fnParts, {}, "asn")
       IN  fnAsnOut' = IF rules = {} THEN Absent ELSE Complete(RenderAsnDoc("a1", rules))
    /\ fnStage' = "asn"
    /\ UNCHANGED <<runVars, fnVarsButStage, fnAgain, categorized, pre_formatted_rules,
                   fnParts, fnPrOut>>

\* process_source_files of process_rules.py on the sources (lines 117-190).
BodyPr ==
    /\ fnStage = "asn"
    /\ fnPrOut' = sorted(Collected(fnParts, {}, "pr"))
    /\ fnStage' = "pr"
    /\ UNCHANGED <<runVars, fnVarsButStage, fnAgain, categorized, pre_formatted_rules,
                   fnParts, fnAsnOut>>

NextBody == BodyTop \/ BodyAsn \/ BodyPr

SpecBody == InitBody /\ [][NextBody]_vars


\* ------------------------------------------------------------------- claims
\* The download call of u has returned.
Returned(u) == fstate[u] \in {"done", "merged"}

\* Every attempt of the returned download call of u timed out.
AllTimedOut(u) == Returned(u) /\ how[u] = "exhausted" /\ seen[u] = {"timeout"}

\* The body lines of the document at the output path of the current descriptor.
CurBody == Range(out[cur].doc.body)

\* C1 as stated: when every attempt of a URL times out, the GET is issued
\* exactly MAX_RETRIES times, the call returns the empty set, and every rule of
\* every other URL and every literal line of the descriptor is a body line of
\* the descriptor's document.
C1_Original ==
    \A u \in urls :
        AllTimedOut(u) =>
            /\ gets[u] = MAX_RETRIES
            /\ result[u] = {}
            /\ (pc = "wrote" /\ cur[1] = "top") =>
                  /\ \A v \in urls \ {u} : result[v] \subseteq CurBody
                  /\ direct_rules \subseteq CurBody

\* C1 amended: when every attempt of a URL times out, the GET is issued
\* exactly MAX_RETRIES times, the call returns the empty set, and every rule of
\* every other URL and every literal line of the descriptor is in the written
\* document in the form the writer's filter gives it (a line the filter drops,
\* 'payload:' or one that cleans to nothing, is not).
C1_RetryBound ==
    \A u \in urls :
        AllTimedOut(u) =>
            /\ gets[u] = MAX_RETRIES
            /\ result[u] = {}
            /\ (pc = "wrote" /\ cur[1] = "top") =>
                  /\ \A v \in urls \ {u} : \A r \in result[v] : FilterRule(r) \subseteq CurBody
                  /\ \A l \in direct_rules : FilterRule(l) \subseteq CurBody

\* A document was written although one URL timed out on every attempt, with
\* rules fetched from another URL and literal lines in the descriptor.
C1_Witness ==
    /\ pc = "wrote"
    /\ cur[1] = "top"
    /\ direct_rules # {}
    /\ \E u \in urls : AllTimedOut(u) /\ \E v \in urls \ {u} : result[v] # {}

\* C2: once an attempt of download_content or download_asn_content ends with a
\* 4xx response the call is over: it has returned the empty set, it took no
\* delay after that attempt (one delay per earlier failed attempt, none when
\* the first response is 4xx) and it issued one GET per counted attempt.
C2_ClientErrorEndsLoop ==
    \A u \in AllUrls :
        "http4xx" \in seen[u] =>
            /\ Returned(u)
            /\ how[u] = "client"
            /\ result[u] = {}
            /\ gets[u] = attempt[u]
            /\ sleeps[u] = gets[u] - 1
            /\ seen[u] = {"http4xx"} => gets[u] = 1 /\ sleeps[u] = 0

\* A download call of an ASN descriptor ended by a 4xx response that followed
\* a retried failure.
C2_Witness ==
    \E u \in AllUrls :
        /\ cur # <<>> /\ cur[1] = "asn"
        /\ how[u] = "client"
        /\ gets[u] = 2

\* The descriptors main() has to process once it has found a source file.
ToProcess == {d \in sources : d[1] = "top" \/ asnDir}

\* C3: no failure stops the processing of anything else: a run that started
\* processing ends with every descriptor handed to its processing function,
\* and when the fetches of a descriptor are over, every rule a URL returned is
\* in the descriptor's rule set, whatever the other URLs ended with.
C3_FailuresIsolated ==
    /\ pc = "done" => processed = ToProcess
    /\ pc \in {"write", "writing", "wrote"} =>
          /\ direct_rules \subseteq all_rules
          /\ \A u \in urls : how[u] = "ok" =>
                RulesOf(cur[1], u, Content(u)) \subseteq all_rules

\* The ASN descriptor is written after the write of d1 failed half way, with
\* its own URL fetched after a failed attempt.
C3_Witness ==
    /\ pc = "wrote"
    /\ cur = <<"asn", "a1">>
    /\ out[<<"top", "d1">>].st = "partial"
    /\ \E u \in urls : how[u] = "ok" /\ seen[u] # {}

\* What the download call of u returns for the outcome it ended with.
Fetched(u) == IF how[u] = "ok" THEN RulesOf(cur[1], u, Content(u)) ELSE {}

\* C4: the written document (count lines, total and body) is a function of the
\* descriptor and of what each URL returned, whatever the order in which the
\* fetches completed and were merged.
C4_OrderIndependent ==
    pc = "wrote" =>
        LET rules == direct_rules \cup UNION {Fetched(u) : u \in urls}
        IN  out[cur] = Complete(IF cur[1] = "asn" THEN RenderAsnDoc(cur[2], rules)
                                ELSE RenderDoc(cur[2], rules))

\* A document written from the rules of three URLs that returned different sets.
C4_Witness ==
    /\ pc = "wrote"
    /\ \E u, v, w \in urls :
        /\ result[u] # {} /\ result[v] # {} /\ result[w] # {}
        /\ result[u] # result[v] /\ result[v] # result[w] /\ result[u] # result[w]

\* C5: at most MAX_WORKERS fetches are in flight, over all descriptors.
C5_PoolBound == Cardinality(InFlight) <= MAX_WORKERS

\* The pool is full while a submitted download waits.
C5_Witness ==
    /\ Cardinality(InFlight) = MAX_WORKERS
    /\ \E u \in AllUrls : fstate[u] = "queued"


\* C6 as stated: when a run that found the root source directory is over and
\* no unlink() failed, no output document is left whose descriptor does not
\* exist.
C6_Original ==
    (pc \in {"done", "exit_nosrc"} /\ ~unlinkFailed) =>
        \A d \in Descriptors : d \notin sources => out[d].st = "absent"

\* C7 as stated: the output path of an existing descriptor that holds a
\* complete document holds a complete document after every step of the run.
C7_Original ==
    [][\A d \in sources : out[d].st = "complete" => out'[d].st = "complete"]_vars

\* C8 as stated: the number on the TOTAL line of a written document is the
\* number of its body lines.
C8_Original ==
    fnStage = "written" => fnOut.doc.total = Len(fnOut.doc.body)

\* C9 as stated: no body line of a written document is 'payload:'.
C9_Original ==
    fnStage = "written" =>
        \A i \in 1..Len(fnOut.doc.body) : fnOut.doc.body[i] # <<"payload:">>

\* The line that ends the payload region opened at line i: the first later line
\* that is not empty, no '#' comment and not dash-prefixed (one past the last
\* line when there is none).
RegionEnd(lines, i) ==
    LET ends == {j \in (i + 1)..Len(lines) :
                    /\ strip(lines[j]) # <<>>
                    /\ Head(strip(lines[j])) \notin {"#", "-"}}
    IN  IF ends = {} THEN Len(lines) + 1
        ELSE CHOOSE j \in ends : \A k \in ends : j <= k

\* The dash-prefixed items of the payload region of a document.
ItemLines(lines) ==
    LET i == PayloadIndex(lines)
    IN  {j \in (i + 1)..(RegionEnd(lines, i) - 1) :
            strip(lines[j]) # <<>> /\ Head(strip(lines[j])) = "-"}

\* A line without its indentation and without its first dash.
AfterDash(line) == strip(Tail(strip(line)))

\* A line without any of its leading dashes and blanks.
RECURSIVE AfterDashes(_)
AfterDashes(line) ==
    IF line # <<>> /\ Head(line) \in {"-", " "} THEN AfterDashes(Tail(line))
    ELSE rstrip(line)

\* C10 as stated: for a document with a 'payload:' line followed by at least
\* one dash-prefixed item, both payload parsers return exactly the items of the
\* region, each without its leading dash and indentation.
C10_Original ==
    (fnStage = "parsed" /\ PayloadIndex(fnDoc) > 0 /\ ItemLines(fnDoc) # {}) =>
        LET items == {AfterDash(fnDoc[j]) : j \in ItemLines(fnDoc)}
        IN  fnYaml = items /\ Range(fnTest) = items

\* C10 amended: for a document with a 'payload:' line followed by at least one
\* dash-prefixed item that has text after its dash, both payload parsers
\* return exactly the items of the region that have text after their dash,
\* each without its leading dashes and indentation; no line before the
\* introducer and no line from the terminating line on gives a token.
C10_PayloadRegion ==
    LET full == {j \in ItemLines(fnDoc) : AfterDash(fnDoc[j]) # <<>>}
        items == {AfterDashes(fnDoc[j]) : j \in full}
    IN  (fnStage = "parsed" /\ PayloadIndex(fnDoc) > 0 /\ full # {}) =>
            fnYaml = items /\ Range(fnTest) = items

\* A parsed document with the introducer, an item, a line that ends the region
\* and a dash-prefixed line after it that is no token of the result.
C10_Witness ==
    /\ fnStage = "parsed"
    /\ PayloadIndex(fnDoc) = 1
    /\ \E j \in ItemLines(fnDoc) : AfterDash(fnDoc[j]) # <<>>
    /\ \E k \in 1..Len(fnDoc) :
        /\ k > RegionEnd(fnDoc, 1)
        /\ strip(fnDoc[k]) # <<>>
        /\ Head(strip(fnDoc[k])) = "-"
        /\ AfterDashes(fnDoc[k]) # <<>>
        /\ AfterDashes(fnDoc[k]) \notin fnYaml

\* The fallback scan runs: the document has no 'payload:' line, or its payload
\* region has no item with text after its dash.
FallbackUsed(lines) ==
    \/ PayloadIndex(lines) = 0
    \/ \A j \in ItemLines(lines) : AfterDash(lines[j]) = <<>>

\* The lines of a document that start with a dash, and those that are not
\* empty and start with something else.
DashLines(lines) ==
    {i \in 1..Len(lines) : strip(lines[i]) # <<>> /\ Head(strip(lines[i])) = "-"}
PlainLines(lines) ==
    {i \in 1..Len(lines) : strip(lines[i]) # <<>> /\ Head(strip(lines[i])) # "-"}

\* C11 as stated: when the fallback scan of process_yaml_content runs, every
\* token returned is the text of a dash-prefixed line of the document: a line
\* that does not start with a dash contributes no token.
C11_Original ==
    (fnStage = "parsed" /\ FallbackUsed(fnDoc)) =>
        \A t \in fnYaml : \E i \in DashLines(fnDoc) : AfterDashes(fnDoc[i]) = t

\* C11 amended: when the fallback scan of process_yaml_content runs, every
\* token returned is the text of a dash-prefixed line or the trimmed text of a
\* line that starts with none of '#', '!', '/', ';', '[' and 'payload:'; a line
\* that starts with one of these markers contributes no token.  The parser of
\* yaml_test.py returns tokens of dash-prefixed lines only.
C11_FallbackLines ==
    (fnStage = "parsed" /\ FallbackUsed(fnDoc)) =>
        /\ \A t \in fnYaml :
              \/ \E i \in DashLines(fnDoc) : AfterDashes(fnDoc[i]) = t
              \/ \E i \in PlainLines(fnDoc) :
                    /\ strip(fnDoc[i]) = t
                    /\ Head(t) \notin {"#", "!", "/", ";", "[", "payload:"}
        /\ \A t \in Range(fnTest) :
              \E i \in DashLines(fnDoc) : AfterDashes(fnDoc[i]) = t

\* A parsed document without introducer that has a dash-prefixed line, a plain
\* line whose text is returned and a line with a marker whose text is not.
C11_Witness ==
    /\ fnStage = "parsed"
    /\ PayloadIndex(fnDoc) = 0
    /\ DashLines(fnDoc) # {}
    /\ \E i \in PlainLines(fnDoc) :
          /\ strip(fnDoc[i]) \in fnYaml
          /\ \A k \in DashLines(fnDoc) : AfterDashes(fnDoc[k]) # strip(fnDoc[i])
    /\ \E i \in PlainLines(fnDoc) :
          Head(strip(fnDoc[i])) = "/" /\ strip(fnDoc[i]) \notin fnYaml

\* The modifier process_asn_content appends.
NoResolve == <<",", "no-resolve">>

\* How many times in a row a rule ends with the modifier, in any case.
RECURSIVE TrailingMods(_)
TrailingMods(r) ==
    IF endswith(lower(r), NoResolve)
    THEN 1 + TrailingMods(SubSeq(r, 1, Len(r) - 2))
    ELSE 0

\* A line holds '//'.
HasComment(line) == \E i \in 1..(Len(line) - 1) : line[i] = "/" /\ line[i + 1] = "/"

\* The trimmed text of a line before its first '//'.
Uncommented(line) ==
    LET k == SlashSlashIndex(strip(line))
    IN  IF k = 0 THEN strip(line) ELSE strip(SubSeq(strip(line), 1, k - 1))

Pending ==
    todo \cup (IF phase = "top" /\ asnDir /\ pc \notin {"start", "glob", "exit_nodir", "exit_nosrc"}
               THEN {d \in sources : d[1] = "asn"} ELSE {})

\* The URLs of the run whose download call has not been started.
NotStarted ==
    {u \in AllUrls : fstate[u] = "queued"}
        \cup UNION {UrlsOf(DescriptorText(d)) : d \in Pending}

\* C13 as stated: while fetches are in flight and fewer than MAX_WORKERS of
\* them, every URL of the run that has not been started, of whatever
\* descriptor, can be started at once.
C13_Original ==
    (InFlight # {} /\ Cardinality(InFlight) < MAX_WORKERS) =>
        \A u \in NotStarted : ENABLED StartFetch(u)

\* C13 amended: while a descriptor is processed and fewer than MAX_WORKERS
\* fetches are in flight, every URL of that descriptor that has not been
\* started can be started at once, whatever the fetches in flight are doing
\* (the URLs of the descriptors processed later wait for the whole of it).
C13_NoBlockingInDescriptor ==
    Cardinality(InFlight) < MAX_WORKERS =>
        \A u \in urls : fstate[u] = "queued" => ENABLED StartFetch(u)

\* One URL is in its retry cycle (an attempt failed, the next has not ended),
\* the pool has a free thread and another URL of the descriptor is waiting.
C13_Witness ==
    /\ Cardinality(InFlight) < MAX_WORKERS
    /\ \E u \in InFlight : attempt[u] > 0 /\ seen[u] # {}
    /\ \E v \in urls : fstate[v] = "queued"

\* C14 as stated: a run of main() that found the root source directory ends
\* with every existing descriptor, ASN descriptors included, handed to its
\* processing function.
C14_Original ==
    (srcDir /\ pc \in {"done", "exit_nosrc"}) => processed = sources

\* The parts of a string between the occurrences of the character sep.
RECURSIVE Split(_, _)
Split(s, sep) ==
    IF \A i \in 1..Len(s) : s[i] # sep THEN <<s>>
    ELSE LET k == CHOOSE i \in 1..Len(s) : s[i] = sep /\ \A j \in 1..(i - 1) : s[j] # sep
         IN  <<SubSeq(s, 1, k - 1)>> \o Split(SubSeq(s, k + 1, Len(s)), sep)

AllIn(s, S) == \A i \in 1..Len(s) : s[i] \in S

\* A decimal number of lo to hi digits.
Number(s, lo, hi) == Len(s) \in lo..hi /\ AllIn(s, Digits)

\* Four numbers of up to three digits joined by '.', with an optional '/' and
\* a prefix length of up to two digits.
IsIPv4(s) ==
    LET sl == Split(s, 47)
        g == Split(sl[1], 46)
    IN  /\ Len(sl) <= 2
        /\ Len(g) = 4
        /\ \A k \in 1..Len(g) : Number(g[k], 1, 3)
        /\ Len(sl) = 2 => Number(sl[2], 1, 2)

\* Hexadecimal digits and colons, with an optional '/' and a prefix length of
\* up to three digits.
IsHexGroups(s) ==
    LET sl == Split(s, 47)
    IN  /\ Len(sl) <= 2
        /\ sl[1] # <<>>
        /\ AllIn(sl[1], HexDigits \cup {58})
        /\ Len(sl) = 2 => Number(sl[2], 1, 3)

\* Labels of at least two characters, letters, digits and inner dashes, joined
\* by '.', the last of them of letters only.
IsFqdn(s) ==
    LET g == Split(s, 46)
        n == Len(g)
    IN  /\ n >= 2
        /\ Len(g[n]) >= 2
        /\ AllIn(g[n], Letters)
        /\ \A k \in 1..(n - 1) :
              /\ Len(g[k]) >= 2
              /\ g[k][1] \in Alnums
              /\ g[k][Len(g[k])] \in Alnums
              /\ AllIn(g[k], Alnums \cup {45})

\* The rule starts with an upper-case type name and ',' or ':'.
IsTyped(s) ==
    \E p \in TypePrefixes :
        /\ Len(s) > Len(Codes(p))
        /\ SubSeq(s, 1, Len(Codes(p))) = Codes(p)
        /\ s[Len(Codes(p)) + 1] \in {44, 58}

\* The steps C15 lists, in their order: the type and the text of a rule.
StepsAsStated(s) ==
    IF IsIPv4(s) THEN <<"IP-CIDR", s>>
    ELSE IF 58 \in Range(s) /\ IsHexGroups(s) THEN <<"IP-CIDR6", s>>
    ELSE IF s # <<>> /\ s[1] = 46 THEN <<"DOMAIN-SUFFIX", Tail(s)>>
    ELSE IF Len(s) >= 2 /\ s[1] = 42 /\ s[2] = 46 THEN <<"DOMAIN-SUFFIX", Tail(Tail(s))>>
    ELSE IF IsFqdn(s) THEN <<"DOMAIN", s>>
    ELSE <<"DOMAIN-KEYWORD", s>>

\* The rule starts, in any letter case, with the lower-case word and ','.
StartsAnyCase(s, word) ==
    LET w == Codes(word) \o <<44>>
    IN  Len(s) >= Len(w) /\ LowerCodes(SubSeq(s, 1, Len(w))) = w

\* The steps of C15 with the two steps that precede the default.
StepsAmended(s) ==
    IF StepsAsStated(s)[1] # "DOMAIN-KEYWORD" THEN StepsAsStated(s)
    ELSE IF StartsAnyCase(s, "user-agent")
    THEN <<"USER-AGENT", SubSeq(s, 12, Len(s))>>
    ELSE IF StartsAnyCase(s, "ip-asn")
    THEN <<"IP-ASN", SubSeq(s, 8, Len(s))>>
    ELSE <<"DOMAIN-KEYWORD", s>>

\* The rules handed to categorize_rules, as character strings.
RulesIn == {Flatten(r) : r \in fnRules}

\* C15 as stated: every rule without type prefix is in the list of the type
\* that the first matching step of IPv4, hex groups with ':', leading '.' or
\* '*.', FQDN gives it, DOMAIN-KEYWORD when no step matches, with the text
\* that step gives it; a typed rule is passed through unchanged.
C15_Original ==
    fnStage = "classified" =>
        /\ \A s \in RulesIn : ~IsTyped(s) =>
              /\ StepsAsStated(s)[1] \in DOMAIN categorized
              /\ StepsAsStated(s)[2] \in DOMAIN categorized[StepsAsStated(s)[1]]
        /\ pre_formatted_rules = {s \in RulesIn : IsTyped(s)}

\* C15 amended: the steps are IPv4, hex groups with ':', leading '.' or '*.'
\* (marker removed), FQDN, then a rule that starts in any letter case with
\* 'user-agent,' is classified USER-AGENT and one that starts with 'ip-asn,'
\* is classified IP-ASN, each without that prefix, and only a rule matching
\* none of these is classified DOMAIN-KEYWORD.  The lists hold one entry per
\* rule and nothing else; a typed rule is passed through unchanged and is in
\* no list.
C15_Classification ==
    fnStage = "classified" =>
        LET plain == {s \in RulesIn : ~IsTyped(s)}
        IN  /\ DOMAIN categorized = {StepsAmended(s)[1] : s \in plain}
            /\ \A t \in DOMAIN categorized :
                  /\ DOMAIN categorized[t] =
                        {StepsAmended(s)[2] : s \in {q \in plain : StepsAmended(q)[1] = t}}
                  /\ \A v \in DOMAIN categorized[t] :
                        categorized[t][v] =
                            Cardinality({s \in plain : StepsAmended(s) = <<t, v>>})
            /\ pre_formatted_rules = {s \in RulesIn : IsTyped(s)}

\* Rules classified with a lower-case 'user-agent,' rule among them: it is in
\* the USER-AGENT list without its prefix, and a rule that only has hex
\* digits and a prefix length, no ':', is a DOMAIN-KEYWORD.
C15_Witness ==
    /\ fnStage = "classified"
    /\ Flatten(<<"user-agent", ",", "x">>) \in RulesIn
    /\ Flatten(<<"a", "b", "/", "1">>) \in RulesIn
    /\ DOMAIN categorized = {"USER-AGENT", "DOMAIN-KEYWORD"}
    /\ Flatten(<<"x">>) \in DOMAIN categorized["USER-AGENT"]

\* A blank stands next to a comma of the line.
BlankAtComma(line) ==
    \E i \in 1..Len(line) :
        /\ line[i] = ","
        /\ \/ i > 1 /\ IsSpace(line[i - 1])
           \/ i < Len(line) /\ IsSpace(line[i + 1])

\* A line without the blanks that stand next to its commas.
RECURSIVE NoBlanksAtCommas(_)
NoBlanksAtCommas(line) ==
    IF \E i \in 1..Len(line) :
          IsSpace(line[i]) /\ (\E k \in {i - 1, i + 1} \cap (1..Len(line)) : line[k] = ",")
    THEN LET i == CHOOSE j \in 1..Len(line) :
                    IsSpace(line[j])
                    /\ (\E k \in {j - 1, j + 1} \cap (1..Len(line)) : line[k] = ",")
         IN  NoBlanksAtCommas(SubSeq(line, 1, i - 1) \o SubSeq(line, i + 1, Len(line)))
    ELSE line

\* C16 as stated: every body line of a document written by
\* process_source_file starts with no '-', has no whitespace on either side of
\* a comma, and no two body lines differ only by whitespace around commas.
C16_Original ==
    fnStage = "written" =>
        LET body == fnOut.doc.body
        IN  /\ \A i \in 1..Len(body) :
                  /\ ~startswith(body[i], <<"-">>)
                  /\ ~BlankAtComma(body[i])
            /\ \A i, j \in 1..Len(body) :
                  NoBlanksAtCommas(body[i]) = NoBlanksAtCommas(body[j]) => body[i] = body[j]

\* C17: in download_content a timeout or a failure without 4xx response is
\* followed by another attempt while fewer than MAX_RETRIES attempts have been
\* made: a call that met only such failures returns either with a success or
\* after MAX_RETRIES attempts; and a call that succeeds at attempt k after k-1
\* such failures (one delay after each) has issued exactly k GETs, none after
\* the success, and returns the rules parsed from the content of attempt k.
C17_RetryThenSuccess ==
    \A u \in urls :
        cur[1] = "top" =>
            /\ (Returned(u) /\ seen[u] \subseteq {"timeout", "http5xx"}) =>
                  \/ how[u] = "ok"
                  \/ how[u] = "exhausted" /\ attempt[u] = MAX_RETRIES
            /\ how[u] = "ok" =>
                  /\ Returned(u)
                  /\ seen[u] \subseteq {"timeout", "http5xx"}
                  /\ gets[u] = attempt[u] + 1
                  /\ gets[u] <= MAX_RETRIES
                  /\ sleeps[u] = attempt[u]
                  /\ result[u] = ParseDownloaded(u, Content(u))

\* A download of a top-level descriptor succeeded at its last attempt, after
\* MAX_RETRIES - 1 failures with a 5xx response, and returned rules.
C17_Witness ==
    /\ cur # <<>> /\ cur[1] = "top"
    /\ \E u \in urls :
          /\ how[u] = "ok"
          /\ seen[u] = {"http5xx"}
          /\ gets[u] = MAX_RETRIES
          /\ result[u] # {}

\* C18 as stated: every token the payload parsers return (process_yaml_content
\* of merge_rules.py, parse_yaml_content of yaml_test.py and of
\* process_rules.py) is not empty, has no blank at either end and starts with
\* no '-'.
C18_Original ==
    fnStage = "parsed" =>
        \A t \in fnYaml \cup Range(fnTest) \cup parse_yaml_content_pr(fnDoc) :
            /\ t # <<>>
            /\ strip(t) = t
            /\ ~startswith(t, <<"-">>)

\* The lines of a body are strictly ascending in the order of their code points.
Ascending(body) ==
    \A i, j \in 1..Len(body) : i < j => CodesLess(Flatten(body[i]), Flatten(body[j]))

\* C19: the body of every document written by process_source_file, by
\* process_asn_source_file and by process_source_files is strictly ascending:
\* its lines are sorted and no line occurs twice, whatever the number of
\* sources that supplied a rule.
C19_BodySorted ==
    /\ Ascending(fnOut.doc.body)
    /\ Ascending(fnAsnOut.doc.body)
    /\ Ascending(fnPrOut)

\* Two sources supplied the same rule, and each of the three writers wrote a
\* body of several lines.
C19_Witness ==
    /\ fnStage = "pr"
    /\ Len(fnParts) = 2
    /\ parse_list_content(fnParts[1][2]) \cap parse_list_content(fnParts[2][2]) # {}
    /\ fnParts[1] # fnParts[2]
    /\ Len(fnOut.doc.body) >= 2
    /\ Len(fnAsnOut.doc.body) >= 2
    /\ Len(fnPrOut) >= 2

====
